---- MODULE Spec2Model ----
(***************************************************************************)
(* The tutorial notebooks of Pyro-probabilistic-models as a state machine. *)
(* A notebook kernel executes one stochastic function at a time; every     *)
(* pyro.sample statement and every entry or exit of a plate context is     *)
(* appended to log, the execution trace of the running function.           *)
(***************************************************************************)
EXTENDS Integers, Sequences, FiniteSets, TLC

VARIABLES cell, pc, log, ctx, stack, ret, loc, lastSites

vars == <<cell, pc, log, ctx, stack, ret, loc, lastSites>>

(***************************************************************************)
(* Bounds of the model.                                                    *)
(***************************************************************************)
\* deepest recursion of geometric() that is explored
MaxDepth == 11
\* draws of Normal(mean, scale) are mean + k * scale, k in -NormalSpread..NormalSpread
NormalSpread == 1
\* longest dataset model(data) is called with
MaxData == 3
\* most draws one Monte Carlo average is taken over
MaxDraws == 4
\* the parameter of a discrete distribution takes the values k / PhiSteps
PhiSteps == 4
\* longest dataset handed to an SVI step
MaxLocals == 6
\* most terms log p(x_i | z) of one log likelihood
MaxTerms == 4

(***************************************************************************)
(* Values.                                                                 *)
(***************************************************************************)
None == "None"

\* a probability num/den
Rat(n, d) == <<n, d>>

\* str.format of a non-negative integer: its decimal digits
DigitChar == <<"0", "1", "2", "3", "4", "5", "6", "7", "8", "9">>

RECURSIVE Digits(_)
Digits(n) == IF n < 10 THEN <<DigitChar[n + 1]>>
             ELSE Digits(n \div 10) \o <<DigitChar[(n % 10) + 1]>>

\* "prefix{}".format(n): a string is the sequence of its pieces
Format(prefix, n) == <<prefix>> \o Digits(n)

\* a string literal
Lit(s) == <<s>>

(***************************************************************************)
(* Primitive distributions and the pyro.sample statement.                  *)
(***************************************************************************)
Bernoulli(p) == [family |-> "Bernoulli", params |-> <<p>>]

Normal(mean, scale) == [family |-> "Normal", params |-> <<mean, scale>>]

\* the values a draw from fn can take (Normal is cut to a finite grid)
Support(fn) ==
    IF fn.family = "Bernoulli"
    THEN (IF fn.params[1][1] > 0 THEN {1} ELSE {}) \cup
         (IF fn.params[1][1] < fn.params[1][2] THEN {0} ELSE {})
    ELSE {fn.params[1] + k * fn.params[2] : k \in (0 - NormalSpread)..NormalSpread}

\* the record pyro.sample(name, fn) leaves in the execution trace
Site(name, fn, value, observed) ==
    [type |-> "sample", name |-> name, fn |-> fn, value |-> value,
     is_observed |-> observed, cond_indep_stack |-> ctx]

\* the sample statements executed so far, in order
Sites == SelectSeq(log, LAMBDA e : e.type = "sample")

SiteNames == [k \in 1..Len(Sites) |-> Sites[k].name]

(***************************************************************************)
(* The kernel: one top-level execution at a time.                          *)
(***************************************************************************)
NoLocals == [none |-> None]

Init ==
    /\ cell = "idle"
    /\ pc = "idle"
    /\ log = <<>>
    /\ ctx = <<>>
    /\ stack = <<>>
    /\ ret = None
    /\ loc = NoLocals
    /\ lastSites = 0

(***************************************************************************)
(* weather(), the Pyro version.                                            *)
(***************************************************************************)
CloudyName == Lit("cloudy")

TempName == Lit("temp")

CloudyProb == Rat(3, 10)

MeanTemp(cloudy) == IF cloudy = "cloudy" THEN 55 ELSE 75

VarianceTemp(cloudy) == IF cloudy = "cloudy" THEN 10 ELSE 15

CloudyLabel(x) == IF x = 1 THEN "cloudy" ELSE "sunny"

CallWeather ==
    /\ cell = "idle"
    /\ cell' = "weather"
    /\ pc' = "cloudy"
    /\ UNCHANGED <<log, ctx, stack, ret, loc, lastSites>>

WeatherSampleCloudy ==
    /\ cell = "weather" /\ pc = "cloudy"
    /\ \E x \in Support(Bernoulli(CloudyProb)) :
          /\ log' = Append(log, Site(CloudyName, Bernoulli(CloudyProb), x, FALSE))
          /\ loc' = [cloudy |-> CloudyLabel(x),
                     mean_temp |-> MeanTemp(CloudyLabel(x)),
                     variance_temp |-> VarianceTemp(CloudyLabel(x))]
    /\ pc' = "temp"
    /\ UNCHANGED <<cell, ctx, stack, ret, lastSites>>

\* variant: temp drawn as in the first weather(), with torch.distributions
\* and rsample(): no pyro.sample statement is issued
WeatherSampleTempTorch ==
    /\ cell = "weather" /\ pc = "temp"
    /\ \E t \in Support(Normal(loc.mean_temp, loc.variance_temp)) :
          ret' = <<loc.cloudy, t>>
    /\ pc' = "done"
    /\ UNCHANGED <<cell, log, ctx, stack, loc, lastSites>>

WeatherSampleTemp ==
    /\ cell = "weather" /\ pc = "temp"
    /\ \E t \in Support(Normal(loc.mean_temp, loc.variance_temp)) :
          /\ log' = Append(log, Site(TempName, Normal(loc.mean_temp, loc.variance_temp), t, FALSE))
          /\ ret' = <<loc.cloudy, t>>
    /\ pc' = "done"
    /\ UNCHANGED <<cell, ctx, stack, loc, lastSites>>

(***************************************************************************)
(* geometric(p, t=None): one frame of stack per active call.               *)
(***************************************************************************)
\* the success probabilities the top-level call is made with
GeometricArgs == {Rat(0, 100), Rat(1, 100), Rat(100, 100)}

\* variant: the same name at every depth of the recursion
GeometricNameStatic(t) == Lit("x")

GeometricName(t) == Format("x_", t)

\* variant: the successful draw is counted too (trials, not failures)
GeometricResultTrials(x, sub) == IF x = 1 THEN 1 ELSE 1 + sub

\* the value a call returns: x is its draw, sub the value of the recursive call
GeometricResult(x, sub) == IF x = 1 THEN 0 ELSE 1 + sub

\* the cell geometric(p) is executed, for the first time or again; lastSites
\* keeps the number of sample statements of the execution before this one
CallGeometric ==
    /\ cell = "idle" \/ (cell = "geometric" /\ pc = "done")
    /\ cell' = "geometric"
    /\ pc' = "run"
    /\ \E p \in GeometricArgs :
          /\ loc' = [p |-> p]
          /\ stack' = <<[t |-> 0, x |-> None, at |-> "sample"]>>   \* t is None: t = 0
    /\ log' = <<>>
    /\ ret' = None
    /\ lastSites' = IF cell = "geometric" THEN Len(Sites) ELSE 0
    /\ UNCHANGED ctx

\* x = pyro.sample("x_{}".format(t), Bernoulli(p)) in the innermost call,
\* then return 0 or call geometric(p, t + 1)
GeometricSample ==
    /\ cell = "geometric" /\ pc = "run"
    /\ stack # <<>> /\ stack[Len(stack)].at = "sample"
    /\ LET top == stack[Len(stack)] IN
       \E x \in Support(Bernoulli(loc.p)) :
          /\ log' = Append(log, Site(GeometricName(top.t), Bernoulli(loc.p), x, FALSE))
          /\ IF x = 1
             THEN /\ ret' = GeometricResult(x, 0)
                  /\ stack' = SubSeq(stack, 1, Len(stack) - 1)
             ELSE /\ top.t < MaxDepth
                  /\ ret' = ret
                  /\ stack' = Append([stack EXCEPT ![Len(stack)] = [t |-> top.t, x |-> x, at |-> "call"]],
                                     [t |-> top.t + 1, x |-> None, at |-> "sample"])
    /\ UNCHANGED <<cell, pc, ctx, loc, lastSites>>

\* return 1 + geometric(p, t + 1) in a call whose recursive call has returned
GeometricReturn ==
    /\ cell = "geometric" /\ pc = "run"
    /\ stack # <<>> /\ stack[Len(stack)].at = "call"
    /\ ret' = GeometricResult(stack[Len(stack)].x, ret)
    /\ stack' = SubSeq(stack, 1, Len(stack) - 1)
    /\ UNCHANGED <<cell, pc, log, ctx, loc, lastSites>>

GeometricDone ==
    /\ cell = "geometric" /\ pc = "run"
    /\ stack = <<>>
    /\ pc' = "done"
    /\ UNCHANGED <<cell, log, ctx, stack, ret, loc, lastSites>>

(***************************************************************************)
(* normal_product(mean, variance) and make_normal_normal().                *)
(***************************************************************************)
MuLatentName == Lit("mu_latent")

Z1Name == Lit("z1")

Z2Name == Lit("z2")

\* the parameter lists of the two def statements and of the lambda
MakeNormalNormalParams == <<>>

NormalProductParams == <<"mean", "variance">>

\* variant: the lambda does not use the sampled mu_latent
ClosureUnbound(mu_latent) == [params |-> <<"scale">>, mean |-> 0]

\* fn = lambda scale: normal_product(mu_latent, scale), closed over mu_latent
Closure(mu_latent) == [params |-> <<"scale">>, mean |-> mu_latent]

\* the arguments the returned function is applied to
ScaleArgs == {1, 2}

CallMakeNormalNormal ==
    /\ cell = "idle"
    /\ cell' = "make_normal_normal"
    /\ pc' = "mu_latent"
    /\ UNCHANGED <<log, ctx, stack, ret, loc, lastSites>>

\* mu_latent = pyro.sample("mu_latent", Normal(0, 1)); return fn
MakeNormalNormalSample ==
    /\ cell = "make_normal_normal" /\ pc = "mu_latent"
    /\ \E m \in Support(Normal(0, 1)) :
          /\ log' = Append(log, Site(MuLatentName, Normal(0, 1), m, FALSE))
          /\ ret' = Closure(m)
    /\ pc' = "returned"
    /\ UNCHANGED <<cell, ctx, stack, loc, lastSites>>

\* make_normal_normal()(1.): the returned function is called
CallClosure ==
    /\ cell = "make_normal_normal" /\ pc = "returned"
    /\ \E scale \in ScaleArgs :
          loc' = [mean |-> ret.mean, variance |-> scale]
    /\ pc' = "z1"
    /\ UNCHANGED <<cell, log, ctx, stack, ret, lastSites>>

NormalProductSampleZ1 ==
    /\ cell = "make_normal_normal" /\ pc = "z1"
    /\ \E z \in Support(Normal(loc.mean, loc.variance)) :
          /\ log' = Append(log, Site(Z1Name, Normal(loc.mean, loc.variance), z, FALSE))
          /\ loc' = [mean |-> loc.mean, variance |-> loc.variance, z1 |-> z]
    /\ pc' = "z2"
    /\ UNCHANGED <<cell, ctx, stack, ret, lastSites>>

\* z2 is sampled, y = z1 * z2 is returned
NormalProductSampleZ2 ==
    /\ cell = "make_normal_normal" /\ pc = "z2"
    /\ \E z \in Support(Normal(loc.mean, loc.variance)) :
          /\ log' = Append(log, Site(Z2Name, Normal(loc.mean, loc.variance), z, FALSE))
          /\ ret' = loc.z1 * z
    /\ pc' = "done"
    /\ UNCHANGED <<cell, ctx, stack, loc, lastSites>>

(***************************************************************************)
(* Sequential plate.  pyro.plate(name, size) is an iterator; each item it  *)
(* yields is yielded inside a new independence context, which is exited    *)
(* when the iterator is resumed for the next item.                         *)
(***************************************************************************)
LatentName == Lit("latent_fairness")

ObsName(i) == Format("obs_", i)

DataLoopName == "data_loop"

\* dist.Beta(alpha0, beta0); alpha0 and beta0 are globals of the notebook
Prior == [family |-> "Beta", params |-> <<"alpha0", "beta0">>]

\* the values of the latent fairness f that are explored
FairnessValues == {Rat(1, 4), Rat(1, 2), Rat(3, 4)}

\* variant: the likelihood ignores the sampled f
LikelihoodFixed(f) == Bernoulli(Rat(1, 2))

\* dist.Bernoulli(f)
Likelihood(f) == Bernoulli(f)

\* data[i], Python's indices start at 0
Index(seq, i) == seq[i + 1]

RECURSIVE SeqsUpTo(_, _)
SeqsUpTo(S, n) ==
    IF n = 0 THEN {<<>>}
    ELSE LET shorter == SeqsUpTo(S, n - 1) IN
         shorter \cup {Append(q, x) : q \in {r \in shorter : Len(r) = n - 1}, x \in S}

\* the datasets model(data) is called with
Datasets == SeqsUpTo({0, 1}, MaxData)

\* pyro.plate(name, size): nothing yielded yet, not inside a context
Plate(name, size) == [name |-> name, size |-> size, next |-> 0, inside |-> FALSE]

Frame(name, counter) == [name |-> name, counter |-> counter]

\* variant: an item is yielded without entering its context
EnterContextSkipped(stk, frame) == stk

EnterContext(stk, frame) == Append(stk, frame)

\* variant: the context of an item is never exited
ExitContextLeaked(stk) == stk

ExitContext(stk) == SubSeq(stk, 1, Len(stk) - 1)

PlateEvent(type, name, counter) == [type |-> type, name |-> name, counter |-> counter]

\* model(data) with for i in pyro.plate("data_loop", len(data))
CallModel ==
    /\ cell = "idle"
    /\ cell' = "model"
    /\ pc' = "latent_fairness"
    /\ \E d \in Datasets :
          loc' = [data |-> d, f |-> None, gen |-> None, i |-> 0, lst |-> <<>>,
                  k |-> 1, consumer |-> "for"]
    /\ UNCHANGED <<log, ctx, stack, ret, lastSites>>

\* f = pyro.sample("latent_fairness", Beta(alpha0, beta0)); the for statement
\* then creates the plate iterator
ModelSampleLatent ==
    /\ cell = "model" /\ pc = "latent_fairness"
    /\ \E f \in FairnessValues :
          /\ log' = Append(log, Site(LatentName, Prior, f, FALSE))
          /\ loc' = [loc EXCEPT !.f = f, !.gen = Plate(DataLoopName, Len(loc.data))]
    /\ pc' = "next"
    /\ UNCHANGED <<cell, ctx, stack, ret, lastSites>>

\* my_reified_list = list(pyro.plate("data_loop", len(data))), at top level:
\* f and data are globals
CallReified ==
    /\ cell = "idle"
    /\ cell' = "reified"
    /\ pc' = "next"
    /\ \E d \in Datasets, f \in FairnessValues :
          loc' = [data |-> d, f |-> f, gen |-> Plate(DataLoopName, Len(d)), i |-> 0,
                  lst |-> <<>>, k |-> 1, consumer |-> "list"]
    /\ UNCHANGED <<log, ctx, stack, ret, lastSites>>

\* the iterator is resumed after a yield: the context of that item is exited
PlateExit ==
    /\ cell \in {"model", "reified"} /\ pc = "next"
    /\ loc.gen.inside
    /\ ctx' = ExitContext(ctx)
    /\ log' = Append(log, PlateEvent("exit", loc.gen.name, loc.gen.next - 1))
    /\ loc' = [loc EXCEPT !.gen.inside = FALSE]
    /\ UNCHANGED <<cell, pc, stack, ret, lastSites>>

\* the iterator enters the context of its next item and yields the item:
\* to the for statement, which runs its body, or to list(), which stores it
\* and asks for the next one
PlateEnter ==
    /\ cell \in {"model", "reified"} /\ pc = "next"
    /\ ~loc.gen.inside /\ loc.gen.next < loc.gen.size
    /\ ctx' = EnterContext(ctx, Frame(loc.gen.name, loc.gen.next))
    /\ log' = Append(log, PlateEvent("enter", loc.gen.name, loc.gen.next))
    /\ IF loc.consumer = "for"
       THEN /\ loc' = [loc EXCEPT !.gen.inside = TRUE, !.gen.next = @ + 1,
                                  !.i = loc.gen.next]
            /\ pc' = "body"
       ELSE /\ loc' = [loc EXCEPT !.gen.inside = TRUE, !.gen.next = @ + 1,
                                  !.lst = Append(@, loc.gen.next)]
            /\ pc' = "next"
    /\ UNCHANGED <<cell, stack, ret, lastSites>>

\* the iterator is exhausted: the for statement ends, list() returns
PlateStop ==
    /\ cell \in {"model", "reified"} /\ pc = "next"
    /\ ~loc.gen.inside /\ loc.gen.next = loc.gen.size
    /\ pc' = IF loc.consumer = "for" THEN "done" ELSE "loop"
    /\ UNCHANGED <<cell, log, ctx, stack, ret, loc, lastSites>>

\* pyro.sample("obs_{}".format(i), Bernoulli(f), obs=data[i]) in the plate loop
ModelObserve ==
    /\ cell = "model" /\ pc = "body"
    /\ log' = Append(log, Site(ObsName(loc.i), Likelihood(loc.f), Index(loc.data, loc.i), TRUE))
    /\ pc' = "next"
    /\ UNCHANGED <<cell, ctx, stack, ret, loc, lastSites>>

\* for i in my_reified_list: pyro.sample("obs_{}".format(i), ..., obs=data[i])
ReifiedObserve ==
    /\ cell = "reified" /\ pc = "loop"
    /\ loc.k <= Len(loc.lst)
    /\ LET i == loc.lst[loc.k] IN
          /\ log' = Append(log, Site(ObsName(i), Likelihood(loc.f), Index(loc.data, i), TRUE))
          /\ loc' = [loc EXCEPT !.i = i, !.k = @ + 1]
    /\ UNCHANGED <<cell, pc, ctx, stack, ret, lastSites>>

ReifiedDone ==
    /\ cell = "reified" /\ pc = "loop"
    /\ loc.k > Len(loc.lst)
    /\ pc' = "done"
    /\ UNCHANGED <<cell, log, ctx, stack, ret, loc, lastSites>>

(***************************************************************************)
(* Arithmetic of the gradient estimators: exact rationals, and polynomials *)
(* in the parameter phi as the sequences of their integer coefficients.    *)
(***************************************************************************)
Abs(x) == IF x < 0 THEN 0 - x ELSE x

RECURSIVE Gcd(_, _)
Gcd(a, b) == IF b = 0 THEN a ELSE Gcd(b, a % b)

\* n/d in lowest terms with a positive denominator; d = 0 is the undefined value
RatNorm(n, d) ==
    IF d = 0 THEN <<0, 0>>
    ELSE LET g == Gcd(Abs(n), Abs(d))
             sgn == IF d < 0 THEN 0 - 1 ELSE 1
         IN <<sgn * (n \div g), sgn * (d \div g)>>

Defined(a) == a[2] # 0

RatAdd(a, b) == IF Defined(a) /\ Defined(b)
                THEN RatNorm(a[1] * b[2] + b[1] * a[2], a[2] * b[2])
                ELSE <<0, 0>>

RatMul(a, b) == IF Defined(a) /\ Defined(b)
                THEN RatNorm(a[1] * b[1], a[2] * b[2])
                ELSE <<0, 0>>

RatDiv(a, b) == IF Defined(a) /\ Defined(b)
                THEN RatNorm(a[1] * b[2], a[2] * b[1])
                ELSE <<0, 0>>

RatInt(n) == <<n, 1>>

RECURSIVE PolyTrim(_)
PolyTrim(p) == IF p # <<>> /\ p[Len(p)] = 0 THEN PolyTrim(SubSeq(p, 1, Len(p) - 1)) ELSE p

Coef(p, k) == IF k <= Len(p) THEN p[k] ELSE 0

PolyAdd(p, q) ==
    PolyTrim([k \in 1..(IF Len(p) > Len(q) THEN Len(p) ELSE Len(q)) |-> Coef(p, k) + Coef(q, k)])

RECURSIVE IntSum(_)
IntSum(xs) == IF xs = <<>> THEN 0 ELSE Head(xs) + IntSum(Tail(xs))

PolyMul(p, q) ==
    IF p = <<>> \/ q = <<>> THEN <<>>
    ELSE PolyTrim([k \in 1..(Len(p) + Len(q) - 1) |->
                      IntSum([j \in 1..k |-> Coef(p, j) * Coef(q, k + 1 - j)])])

\* the derivative with respect to phi
PolyDeriv(p) == IF Len(p) <= 1 THEN <<>>
                ELSE PolyTrim([k \in 1..(Len(p) - 1) |-> k * p[k + 1]])

\* p(q(phi)), by Horner's rule
RECURSIVE PolyCompose(_, _)
PolyCompose(p, q) == IF p = <<>> THEN <<>>
                     ELSE PolyAdd(PolyTrim(<<Head(p)>>), PolyMul(q, PolyCompose(Tail(p), q)))

RECURSIVE PolyEval(_, _)
PolyEval(p, x) == IF p = <<>> THEN 0 ELSE Head(p) + x * PolyEval(Tail(p), x)

RECURSIVE PolyEvalRat(_, _)
PolyEvalRat(p, x) == IF p = <<>> THEN RatInt(0)
                     ELSE RatAdd(RatInt(Head(p)), RatMul(x, PolyEvalRat(Tail(p), x)))

(***************************************************************************)
(* Easy case: the reparameterized (pathwise) estimator of                  *)
(* grad_phi E_q(eps)[ f(g_phi(eps)) ].                                     *)
(***************************************************************************)
IdentityCost == <<0, 1>>

SquareCost == <<0, 0, 1>>

\* the cost functions f(z) that are explored
PathwiseCosts == {IdentityCost, SquareCost}

\* the values of the location parameter that are explored
Locations == {0 - 1, 0, 2}

\* g_phi(eps) of the normal distribution: z = mu + eps, as a polynomial in mu
Transform(eps) == PolyTrim(<<eps, 1>>)

\* variant: z is drawn without reparameterization (sample() in place of
\* rsample()), so no gradient reaches phi through z
PathwiseEstimateDetached(cost, mu, eps) ==
    PolyEval(PolyDeriv(cost), PolyEval(Transform(eps), mu)) * 0

\* grad_phi f(g_phi(eps)) at phi = mu, by the chain rule f'(g) * g'
PathwiseEstimate(cost, mu, eps) ==
    PolyEval(PolyDeriv(cost), PolyEval(Transform(eps), mu))
        * PolyEval(PolyDeriv(Transform(eps)), mu)

CallPathwise ==
    /\ cell = "idle"
    /\ cell' = "pathwise"
    /\ pc' = "draw"
    /\ \E mu \in Locations, cost \in PathwiseCosts :
          loc' = [mu |-> mu, cost |-> cost, n |-> 0, gradSum |-> 0, expectation |-> <<>>]
    /\ UNCHANGED <<log, ctx, stack, ret, lastSites>>

\* one draw eps of the fixed noise distribution: the estimate of this draw is
\* added to gradSum, and f(g_phi(eps)), a polynomial in phi, to the sum whose
\* mean is the Monte Carlo estimate of E[f(g_phi(eps))]
PathwiseDraw ==
    /\ cell = "pathwise" /\ pc = "draw"
    /\ loc.n < MaxDraws
    /\ \E eps \in Support(Normal(0, 1)) :
          loc' = [loc EXCEPT !.n = @ + 1,
                             !.gradSum = @ + PathwiseEstimate(loc.cost, loc.mu, eps),
                             !.expectation = PolyAdd(@, PolyCompose(loc.cost, Transform(eps)))]
    /\ UNCHANGED <<cell, pc, log, ctx, stack, ret, lastSites>>

\* the average of the estimates is returned as a fraction
PathwiseDone ==
    /\ cell = "pathwise" /\ pc = "draw"
    /\ loc.n > 0
    /\ ret' = RatNorm(loc.gradSum, loc.n)
    /\ pc' = "done"
    /\ UNCHANGED <<cell, log, ctx, stack, loc, lastSites>>

(***************************************************************************)
(* Tricky case: the score function (REINFORCE) estimator of                *)
(* grad_phi E_q_phi(z)[ f_phi(z) ] for a distribution q_phi of finite      *)
(* support.  q_phi(z) and f_phi(z) are polynomials in phi.                 *)
(***************************************************************************)
\* the values z of the family, in order
Outcomes(family) == IF family = "Bernoulli" THEN <<0, 1>> ELSE <<0, 1, 2>>

\* q_phi(z) as a polynomial in phi: Bernoulli(phi), or Binomial(2, phi)
Density(family, z) ==
    LET fail == <<1, 0 - 1>>
        succ == <<0, 1>>
    IN IF family = "Bernoulli"
       THEN (IF z = 1 THEN succ ELSE fail)
       ELSE CASE z = 0 -> PolyMul(fail, fail)
              [] z = 1 -> PolyMul(<<2>>, PolyMul(succ, fail))
              [] OTHER -> PolyMul(succ, succ)

Families == {"Bernoulli", "Binomial"}

\* the parameter values that are explored: 0, 1/PhiSteps, ..., 1
Parameters == {RatNorm(k, PhiSteps) : k \in 0..PhiSteps}

\* the costs f_phi(z) that are explored: a + b * phi
CostPolys == {PolyTrim(<<a, b>>) : a \in {0 - 1, 2}, b \in {0, 1}}

CostsOf(family) == [1..Len(Outcomes(family)) -> CostPolys]

\* f_phi(z): cost holds one polynomial per value of the family
CostAt(family, cost, z) == cost[z + 1]

Prob(family, z, phi) == PolyEvalRat(Density(family, z), phi)

Positive(a) == Defined(a) /\ a[1] > 0

\* variant: the gradient of the density in place of that of its logarithm
GradLogQNoLog(family, z, phi) == PolyEvalRat(PolyDeriv(Density(family, z)), phi)

\* grad_phi log q_phi(z) = (grad_phi q_phi(z)) / q_phi(z)
GradLogQ(family, z, phi) ==
    RatDiv(PolyEvalRat(PolyDeriv(Density(family, z)), phi), Prob(family, z, phi))

\* variant: the term grad f_phi(z) is left out
ScoreEstimateNoCostGrad(family, cost, z, phi) ==
    RatMul(GradLogQ(family, z, phi), PolyEvalRat(CostAt(family, cost, z), phi))

\* the estimate of one draw z: (grad log q_phi(z)) * f_phi(z) + grad f_phi(z)
ScoreEstimate(family, cost, z, phi) ==
    RatAdd(RatMul(GradLogQ(family, z, phi), PolyEvalRat(CostAt(family, cost, z), phi)),
           PolyEvalRat(PolyDeriv(CostAt(family, cost, z)), phi))

RECURSIVE RatSum(_)
RatSum(xs) == IF xs = <<>> THEN RatInt(0) ELSE RatAdd(Head(xs), RatSum(Tail(xs)))

\* the expectation of the estimate under q_phi: the sum over the values that
\* can be drawn
ScoreForm(family, cost, phi) ==
    LET drawn == SelectSeq(Outcomes(family), LAMBDA z : Positive(Prob(family, z, phi)))
        Term(z) == RatMul(Prob(family, z, phi), ScoreEstimate(family, cost, z, phi))
    IN RatSum([k \in 1..Len(drawn) |-> Term(drawn[k])])

\* SUM_z [ grad q_phi(z) * f_phi(z) + q_phi(z) * grad f_phi(z) ]
ChainRuleForm(family, cost, phi) ==
    LET Term(z) ==
            RatAdd(RatMul(PolyEvalRat(PolyDeriv(Density(family, z)), phi),
                          PolyEvalRat(CostAt(family, cost, z), phi)),
                   RatMul(Prob(family, z, phi),
                          PolyEvalRat(PolyDeriv(CostAt(family, cost, z)), phi)))
    IN RatSum([k \in 1..Len(Outcomes(family)) |-> Term(Outcomes(family)[k])])

RECURSIVE PolySum(_)
PolySum(ps) == IF ps = <<>> THEN <<>> ELSE PolyAdd(Head(ps), PolySum(Tail(ps)))

\* grad_phi SUM_z q_phi(z) * f_phi(z): the sum is differentiated as a polynomial
GradientOfExpectation(family, cost, phi) ==
    LET Term(z) == PolyMul(Density(family, z), CostAt(family, cost, z))
    IN PolyEvalRat(PolyDeriv(PolySum([k \in 1..Len(Outcomes(family)) |-> Term(Outcomes(family)[k])])), phi)

CallScore ==
    /\ cell = "idle"
    /\ cell' = "score"
    /\ pc' = "draw"
    /\ \E family \in Families, phi \in Parameters :
       \E cost \in CostsOf(family) :
          loc' = [family |-> family, phi |-> phi, cost |-> cost,
                  counts |-> [k \in 1..Len(Outcomes(family)) |-> 0],
                  n |-> 0, sum |-> RatInt(0)]
    /\ UNCHANGED <<log, ctx, stack, ret, lastSites>>

\* one draw z of q_phi, a value of positive probability: its estimate is added
ScoreDraw ==
    /\ cell = "score" /\ pc = "draw"
    /\ loc.n < MaxDraws
    /\ \E k \in 1..Len(Outcomes(loc.family)) :
          LET z == Outcomes(loc.family)[k] IN
          /\ Positive(Prob(loc.family, z, loc.phi))
          /\ loc' = [loc EXCEPT !.n = @ + 1, !.counts[k] = @ + 1,
                                !.sum = RatAdd(@, ScoreEstimate(loc.family, loc.cost, z, loc.phi))]
    /\ UNCHANGED <<cell, pc, log, ctx, stack, ret, lastSites>>

\* the average of the estimates is returned
ScoreDone ==
    /\ cell = "score" /\ pc = "draw"
    /\ loc.n > 0
    /\ ret' = RatDiv(loc.sum, RatInt(loc.n))
    /\ pc' = "done"
    /\ UNCHANGED <<cell, log, ctx, stack, loc, lastSites>>

(***************************************************************************)
(* Subsampling with plate.  plate(name, size, subsample_size) yields       *)
(* subsample_size different indices of 0..size-1 in random order and       *)
(* scales every statement inside its context by size / subsample_size.     *)
(***************************************************************************)
\* data = torch.zeros(10)
DataSize == 10

\* data[0:6] = torch.ones(6)
Heads == 6

TensorData == [k \in 1..DataSize |-> IF k <= Heads THEN 1 ELSE 0]

\* subsample_size=5
SubsampleSize == 5

\* f, the name the fragments leave free: the fairness the model sampled
GlobalFairness == Rat(1, 2)

SubsamplePlate(name, size, subsample_size) ==
    [name |-> name, size |-> size, subsample_size |-> subsample_size,
     yielded |-> <<>>, inside |-> FALSE]

SubsampleFrame(name, counter, size, subsample_size) ==
    [name |-> name, counter |-> counter, size |-> size, subsample_size |-> subsample_size]

\* variant: the factor is taken upside down
PlateScaleInverted(frame) == RatNorm(frame.subsample_size, frame.size)

\* the factor one plate context scales its statements by
PlateScale(frame) == RatNorm(frame.size, frame.subsample_size)

RECURSIVE StackScale(_)
StackScale(stk) == IF stk = <<>> THEN RatInt(1)
                   ELSE RatMul(PlateScale(Head(stk)), StackScale(Tail(stk)))

\* pyro.sample inside subsampling plates: the site carries the scale
ScaledSite(name, fn, value, observed) ==
    [type |-> "sample", name |-> name, fn |-> fn, value |-> value,
     is_observed |-> observed, cond_indep_stack |-> ctx, scale |-> StackScale(ctx)]

Range(seq) == {seq[k] : k \in 1..Len(seq)}

\* the indices a plate that has yielded `yielded` can yield next: the random
\* permutation is drawn as it is consumed
FreshIndices(size, yielded) == (0..(size - 1)) \ Range(yielded)

\* for i in pyro.plate("data_loop", len(data), subsample_size=5), at top level
CallSubsampleLoop ==
    /\ cell = "idle"
    /\ cell' = "subsample"
    /\ pc' = "next"
    /\ loc' = [data |-> TensorData, f |-> GlobalFairness, i |-> 0,
               gen |-> SubsamplePlate(DataLoopName, Len(TensorData), SubsampleSize)]
    /\ UNCHANGED <<log, ctx, stack, ret, lastSites>>

SubsampleExit ==
    /\ cell = "subsample" /\ pc = "next"
    /\ loc.gen.inside
    /\ ctx' = ExitContext(ctx)
    /\ log' = Append(log, PlateEvent("exit", loc.gen.name, loc.i))
    /\ loc' = [loc EXCEPT !.gen.inside = FALSE]
    /\ UNCHANGED <<cell, pc, stack, ret, lastSites>>

SubsampleEnter ==
    /\ cell = "subsample" /\ pc = "next"
    /\ ~loc.gen.inside /\ Len(loc.gen.yielded) < loc.gen.subsample_size
    /\ \E i \in FreshIndices(loc.gen.size, loc.gen.yielded) :
          /\ ctx' = EnterContext(ctx, SubsampleFrame(loc.gen.name, i, loc.gen.size,
                                                     loc.gen.subsample_size))
          /\ log' = Append(log, PlateEvent("enter", loc.gen.name, i))
          /\ loc' = [loc EXCEPT !.gen.inside = TRUE, !.gen.yielded = Append(@, i), !.i = i]
    /\ pc' = "body"
    /\ UNCHANGED <<cell, stack, ret, lastSites>>

SubsampleStop ==
    /\ cell = "subsample" /\ pc = "next"
    /\ ~loc.gen.inside /\ Len(loc.gen.yielded) = loc.gen.subsample_size
    /\ pc' = "done"
    /\ UNCHANGED <<cell, log, ctx, stack, ret, loc, lastSites>>

\* pyro.sample("obs_{}".format(i), Bernoulli(f), obs=data[i])
SubsampleObserve ==
    /\ cell = "subsample" /\ pc = "body"
    /\ log' = Append(log, ScaledSite(ObsName(loc.i), Likelihood(loc.f),
                                     Index(loc.data, loc.i), TRUE))
    /\ pc' = "next"
    /\ UNCHANGED <<cell, ctx, stack, ret, loc, lastSites>>

(***************************************************************************)
(* The vectorized subsampling plate: entered once, it returns the tensor   *)
(* of the subsampled indices.                                              *)
(***************************************************************************)
ObserveDataName == Lit("observe_data")

VectorizedObsName == Lit("obs")

\* the tensors of subsample_size different indices of 0..size-1
IndexTensors(size, subsample_size) ==
    {ind \in [1..subsample_size -> 0..(size - 1)] :
        \A j, k \in 1..subsample_size : j # k => ind[j] # ind[k]}

\* variant: the leading elements, whatever ind holds
IndexSelectLeading(tensor, ind) == [k \in 1..Len(ind) |-> Index(tensor, k - 1)]

\* tensor.index_select(0, ind)
IndexSelect(tensor, ind) == [k \in 1..Len(ind) |-> Index(tensor, ind[k])]

CallVectorized ==
    /\ cell = "idle"
    /\ cell' = "vectorized"
    /\ pc' = "with"
    /\ loc' = [data |-> TensorData, f |-> GlobalFairness, ind |-> <<>>,
               gen |-> SubsamplePlate(ObserveDataName, DataSize, SubsampleSize)]
    /\ UNCHANGED <<log, ctx, stack, ret, lastSites>>

\* with plate('observe_data', size=10, subsample_size=5) as ind
VectorizedEnter ==
    /\ cell = "vectorized" /\ pc = "with"
    /\ \E ind \in IndexTensors(loc.gen.size, loc.gen.subsample_size) :
          /\ loc' = [loc EXCEPT !.ind = ind, !.gen.inside = TRUE, !.gen.yielded = ind]
    /\ ctx' = EnterContext(ctx, SubsampleFrame(loc.gen.name, None, loc.gen.size,
                                               loc.gen.subsample_size))
    /\ log' = Append(log, PlateEvent("enter", loc.gen.name, None))
    /\ pc' = "body"
    /\ UNCHANGED <<cell, stack, ret, lastSites>>

\* pyro.sample('obs', Bernoulli(f), obs=data.index_select(0, ind))
VectorizedObserve ==
    /\ cell = "vectorized" /\ pc = "body"
    /\ log' = Append(log, ScaledSite(VectorizedObsName, Likelihood(loc.f),
                                     IndexSelect(loc.data, loc.ind), TRUE))
    /\ pc' = "exit"
    /\ UNCHANGED <<cell, ctx, stack, ret, loc, lastSites>>

VectorizedExit ==
    /\ cell = "vectorized" /\ pc = "exit"
    /\ ctx' = ExitContext(ctx)
    /\ log' = Append(log, PlateEvent("exit", loc.gen.name, None))
    /\ loc' = [loc EXCEPT !.gen.inside = FALSE]
    /\ pc' = "done"
    /\ UNCHANGED <<cell, stack, ret, lastSites>>

(***************************************************************************)
(* One SVI step over model(data) and guide(data): the guide runs first and *)
(* its trace is kept, then the model runs against that trace.  Only the    *)
(* guide's plate names a subsample_size.                                   *)
(***************************************************************************)
BetaName == Lit("beta")

LocalsName == Lit("locals")

LocalName(i) == Format("z_", i)

\* the distributions the notebook writes as ...
Ellipsis == [family |-> "..."]

GlobalSupport == {0, 1}

LocalSupport == {0}

\* theta_i = compute_something(z_i); dist.MyDist(theta_i)
MyDist(z) == [family |-> "MyDist", theta |-> <<"compute_something", z>>]

\* the datasets handed to model and guide, one of every length
LocalsData(n) == [k \in 1..n |-> k % 2]

\* the value the trace holds for the site of this name, if it holds one
Traced(trace, name) == {e.value : e \in {trace[k] : k \in {j \in 1..Len(trace) :
                                        trace[j].type = "sample" /\ trace[j].name = name}}}

\* variant: the model's plate runs over every index of the data
ReplayIndicesAll(indices, size) == [k \in 1..size |-> k - 1]

\* the indices of a plate of the model that the guide has subsampled
ReplayIndices(indices, size) == indices

ReplayPlate(name, size, indices) ==
    [name |-> name, size |-> size, subsample_size |-> Len(indices),
     yielded |-> <<>>, inside |-> FALSE, indices |-> indices]

CallSviStep ==
    /\ cell = "idle"
    /\ \E n \in SubsampleSize..MaxLocals :
          loc' = [data |-> LocalsData(n), role |-> "guide", gen |-> None, i |-> 0,
                  guide_trace |-> <<>>, subsample |-> <<>>, z_i |-> None]
    /\ cell' = "svi"
    /\ pc' = "g_beta"
    /\ UNCHANGED <<log, ctx, stack, ret, lastSites>>

\* guide: beta = pyro.sample("beta", ...)
SviGuideBeta ==
    /\ cell = "svi" /\ pc = "g_beta"
    /\ \E v \in GlobalSupport :
          log' = Append(log, ScaledSite(BetaName, Ellipsis, v, FALSE))
    /\ pc' = "g_plate"
    /\ UNCHANGED <<cell, ctx, stack, ret, loc, lastSites>>

\* guide: pyro.plate("locals", len(data), subsample_size=5)
SviGuidePlate ==
    /\ cell = "svi" /\ pc = "g_plate"
    /\ loc' = [loc EXCEPT !.gen = SubsamplePlate(LocalsName, Len(loc.data), SubsampleSize)]
    /\ log' = Append(log, PlateEvent("subsample", LocalsName, None))
    /\ pc' = "g_next"
    /\ UNCHANGED <<cell, ctx, stack, ret, lastSites>>

SviGuideExit ==
    /\ cell = "svi" /\ pc = "g_next"
    /\ loc.gen.inside
    /\ ctx' = ExitContext(ctx)
    /\ log' = Append(log, PlateEvent("exit", loc.gen.name, loc.i))
    /\ loc' = [loc EXCEPT !.gen.inside = FALSE]
    /\ UNCHANGED <<cell, pc, stack, ret, lastSites>>

SviGuideEnter ==
    /\ cell = "svi" /\ pc = "g_next"
    /\ ~loc.gen.inside /\ Len(loc.gen.yielded) < loc.gen.subsample_size
    /\ \E i \in FreshIndices(loc.gen.size, loc.gen.yielded) :
          /\ ctx' = EnterContext(ctx, SubsampleFrame(loc.gen.name, i, loc.gen.size,
                                                     loc.gen.subsample_size))
          /\ log' = Append(log, PlateEvent("enter", loc.gen.name, i))
          /\ loc' = [loc EXCEPT !.gen.inside = TRUE, !.gen.yielded = Append(@, i), !.i = i]
    /\ pc' = "g_body"
    /\ UNCHANGED <<cell, stack, ret, lastSites>>

\* guide: pyro.sample("z_{}".format(i), ..., lambda_i)
SviGuideLocal ==
    /\ cell = "svi" /\ pc = "g_body"
    /\ \E v \in LocalSupport :
          log' = Append(log, ScaledSite(LocalName(loc.i), Ellipsis, v, FALSE))
    /\ pc' = "g_next"
    /\ UNCHANGED <<cell, ctx, stack, ret, loc, lastSites>>

\* the guide returns: its trace and the indices of its plate are kept
SviGuideStop ==
    /\ cell = "svi" /\ pc = "g_next"
    /\ ~loc.gen.inside /\ Len(loc.gen.yielded) = loc.gen.subsample_size
    /\ loc' = [loc EXCEPT !.guide_trace = log, !.subsample = loc.gen.yielded,
                          !.role = "model", !.gen = None, !.i = 0]
    /\ log' = <<>>
    /\ pc' = "m_beta"
    /\ UNCHANGED <<cell, ctx, stack, ret, lastSites>>

\* model: beta = pyro.sample("beta", ...), run against the guide's trace
SviModelBeta ==
    /\ cell = "svi" /\ pc = "m_beta"
    /\ \E v \in Traced(loc.guide_trace, BetaName) :
          log' = Append(log, ScaledSite(BetaName, Ellipsis, v, FALSE))
    /\ pc' = "m_plate"
    /\ UNCHANGED <<cell, ctx, stack, ret, loc, lastSites>>

\* model: pyro.plate("locals", len(data))
SviModelPlate ==
    /\ cell = "svi" /\ pc = "m_plate"
    /\ loc' = [loc EXCEPT !.gen = ReplayPlate(LocalsName, Len(loc.data),
                                              ReplayIndices(loc.subsample, Len(loc.data)))]
    /\ pc' = "m_next"
    /\ UNCHANGED <<cell, log, ctx, stack, ret, lastSites>>

SviModelExit ==
    /\ cell = "svi" /\ pc = "m_next"
    /\ loc.gen.inside
    /\ ctx' = ExitContext(ctx)
    /\ log' = Append(log, PlateEvent("exit", loc.gen.name, loc.i))
    /\ loc' = [loc EXCEPT !.gen.inside = FALSE]
    /\ UNCHANGED <<cell, pc, stack, ret, lastSites>>

SviModelEnter ==
    /\ cell = "svi" /\ pc = "m_next"
    /\ ~loc.gen.inside /\ Len(loc.gen.yielded) < Len(loc.gen.indices)
    /\ LET i == loc.gen.indices[Len(loc.gen.yielded) + 1] IN
          /\ ctx' = EnterContext(ctx, SubsampleFrame(loc.gen.name, i, loc.gen.size,
                                                     loc.gen.subsample_size))
          /\ log' = Append(log, PlateEvent("enter", loc.gen.name, i))
          /\ loc' = [loc EXCEPT !.gen.inside = TRUE, !.gen.yielded = Append(@, i), !.i = i]
    /\ pc' = "m_z"
    /\ UNCHANGED <<cell, stack, ret, lastSites>>

\* model: z_i = pyro.sample("z_{}".format(i), ...): the guide's value where
\* the guide has sampled the site
SviModelLocal ==
    /\ cell = "svi" /\ pc = "m_z"
    /\ LET traced == Traced(loc.guide_trace, LocalName(loc.i)) IN
       \E v \in (IF traced = {} THEN LocalSupport ELSE traced) :
          /\ log' = Append(log, ScaledSite(LocalName(loc.i), Ellipsis, v, FALSE))
          /\ loc' = [loc EXCEPT !.z_i = v]
    /\ pc' = "m_obs"
    /\ UNCHANGED <<cell, ctx, stack, ret, lastSites>>

\* model: pyro.sample("obs_{}".format(i), dist.MyDist(theta_i), obs=data[i])
SviModelObserve ==
    /\ cell = "svi" /\ pc = "m_obs"
    /\ log' = Append(log, ScaledSite(ObsName(loc.i), MyDist(loc.z_i),
                                     Index(loc.data, loc.i), TRUE))
    /\ pc' = "m_next"
    /\ UNCHANGED <<cell, ctx, stack, ret, loc, lastSites>>

SviModelStop ==
    /\ cell = "svi" /\ pc = "m_next"
    /\ ~loc.gen.inside /\ Len(loc.gen.yielded) = Len(loc.gen.indices)
    /\ pc' = "done"
    /\ UNCHANGED <<cell, log, ctx, stack, ret, loc, lastSites>>

(***************************************************************************)
(* The mini-batch approximation of the log likelihood:                     *)
(* SUM_{i=1..N} log p(x_i | z)  ~  (N/M) SUM_{i in I_M} log p(x_i | z).    *)
(***************************************************************************)
\* the values one term log p(x_i | z) takes
TermValues == {0 - 2, 0 - 1, 1}

\* the mini-batches I_M: the sets of M of the indices 1..N
Minibatches(N, M) == {I \in SUBSET (1..N) : Cardinality(I) = M}

\* SUM_{i in I} terms[i]
SumOver(terms, I) == IntSum([i \in 1..Len(terms) |-> IF i \in I THEN terms[i] ELSE 0])

\* SUM_{i=1..N} log p(x_i | z)
FullSum(terms) == SumOver(terms, 1..Len(terms))

\* variant: the sum of the mini-batch as it is
MinibatchSumUnscaled(terms, I, N, M) == RatInt(SumOver(terms, I))

\* (N/M) SUM_{i in I_M} log p(x_i | z)
MinibatchSum(terms, I, N, M) == RatMul(RatNorm(N, M), RatInt(SumOver(terms, I)))

CallMinibatch ==
    /\ cell = "idle"
    /\ cell' = "minibatch"
    /\ pc' = "draw"
    /\ \E N \in 2..MaxTerms :
       \E M \in 1..(N - 1), terms \in [1..N -> TermValues] :
          loc' = [N |-> N, M |-> M, terms |-> terms, I |-> {}, estimate |-> RatInt(0)]
    /\ UNCHANGED <<log, ctx, stack, ret, lastSites>>

\* one mini-batch of indices is drawn and the scaled sum over it computed
MinibatchDraw ==
    /\ cell = "minibatch" /\ pc = "draw"
    /\ \E I \in Minibatches(loc.N, loc.M) :
          loc' = [loc EXCEPT !.I = I,
                             !.estimate = MinibatchSum(loc.terms, I, loc.N, loc.M)]
    /\ pc' = "done"
    /\ UNCHANGED <<cell, log, ctx, stack, ret, lastSites>>

(***************************************************************************)
(* The next execution starts from a fresh trace.                           *)
(***************************************************************************)
NextExecution ==
    /\ pc = "done"
    /\ cell' = "idle"
    /\ pc' = "idle"
    /\ log' = <<>>
    /\ ctx' = <<>>
    /\ stack' = <<>>
    /\ ret' = None
    /\ loc' = NoLocals
    /\ lastSites' = 0

Next ==
    \/ CallWeather
    \/ WeatherSampleCloudy
    \/ WeatherSampleTemp
    \/ CallGeometric
    \/ GeometricSample
    \/ GeometricReturn
    \/ GeometricDone
    \/ CallMakeNormalNormal
    \/ MakeNormalNormalSample
    \/ CallClosure
    \/ NormalProductSampleZ1
    \/ NormalProductSampleZ2
    \/ CallModel
    \/ ModelSampleLatent
    \/ CallReified
    \/ PlateExit
    \/ PlateEnter
    \/ PlateStop
    \/ ModelObserve
    \/ ReifiedObserve
    \/ ReifiedDone
    \/ CallPathwise
    \/ PathwiseDraw
    \/ PathwiseDone
    \/ CallScore
    \/ ScoreDraw
    \/ ScoreDone
    \/ NextExecution

Spec == Init /\ [][Next]_vars

\* the cells that subsample
SubsampleNext ==
    \/ CallSubsampleLoop
    \/ SubsampleExit
    \/ SubsampleEnter
    \/ SubsampleStop
    \/ SubsampleObserve
    \/ CallVectorized
    \/ VectorizedEnter
    \/ VectorizedObserve
    \/ VectorizedExit
    \/ CallSviStep
    \/ SviGuideBeta
    \/ SviGuidePlate
    \/ SviGuideExit
    \/ SviGuideEnter
    \/ SviGuideLocal
    \/ SviGuideStop
    \/ SviModelBeta
    \/ SviModelPlate
    \/ SviModelExit
    \/ SviModelEnter
    \/ SviModelLocal
    \/ SviModelObserve
    \/ SviModelStop
    \/ CallMinibatch
    \/ MinibatchDraw
    \/ NextExecution

SubsampleSpec == Init /\ [][SubsampleNext]_vars

(***************************************************************************)
(* Properties.                                                             *)
(***************************************************************************)
IsSample(e) == e.type = "sample"

IsPlateEvent(e) == e.type \in {"enter", "exit"}

CountOf(type) == Len(SelectSeq(log, LAMBDA e : e.type = type))

Draws == [k \in 1..Len(Sites) |-> Sites[k].value]

\* C1: for z = mu + eps the sum of the pathwise estimates over the draws is the
\* gradient at mu of the summed costs f(mu + eps) (the gradient passes through
\* the expectation), and for the identity cost it is the number of draws: the
\* average is 1, within 0.01, for every mu and every sequence of draws.
C1_PathwiseAverageIsOne ==
    (cell = "pathwise" /\ loc.n > 0) =>
        /\ loc.gradSum = PolyEval(PolyDeriv(loc.expectation), loc.mu)
        /\ loc.cost = IdentityCost =>
              /\ loc.gradSum = loc.n
              /\ 100 * Abs(loc.gradSum - loc.n) <= loc.n
              /\ loc.expectation = PolyTrim(<<Coef(loc.expectation, 1), loc.n>>)
              /\ pc = "done" => ret = RatInt(1)

C1_Witness ==
    /\ cell = "pathwise" /\ pc = "done"
    /\ loc.cost = IdentityCost /\ loc.mu = 2 /\ loc.n >= 3
    /\ ret = RatInt(1)

\* the cost of a score-function run does not depend on phi
CostIndependentOfPhi ==
    \A k \in 1..Len(loc.cost) : PolyDeriv(loc.cost[k]) = <<>>

\* f(1) - f(0) of a cost that does not depend on phi
AnalyticBernoulliGradient ==
    RatInt(PolyEval(loc.cost[2], 0) - PolyEval(loc.cost[1], 0))

Interior(phi) == Positive(phi) /\ phi[1] < phi[2]

\* C2: for z ~ Bernoulli(p), 0 < p < 1, and a cost f(z) that does not depend on
\* p, the expectation under q_p of (d/dp log q_p(z)) * f(z) is f(1) - f(0); the
\* Monte Carlo average of the estimates is that value whenever the draws hold
\* the value 1 with frequency p.
C2_ScoreFunctionUnbiased ==
    (cell = "score" /\ loc.family = "Bernoulli" /\ Interior(loc.phi) /\ CostIndependentOfPhi) =>
        /\ ScoreForm(loc.family, loc.cost, loc.phi) = AnalyticBernoulliGradient
        /\ (loc.n > 0 /\ loc.counts[2] * loc.phi[2] = loc.phi[1] * loc.n) =>
              /\ RatDiv(loc.sum, RatInt(loc.n)) = AnalyticBernoulliGradient
              /\ pc = "done" => ret = AnalyticBernoulliGradient

C2_Witness ==
    /\ cell = "score" /\ pc = "done" /\ loc.family = "Bernoulli"
    /\ loc.phi = Rat(1, 4) /\ CostIndependentOfPhi
    /\ loc.counts = <<3, 1>>
    /\ AnalyticBernoulliGradient = RatInt(3)
    /\ ret = RatInt(3)

AllPositive ==
    \A k \in 1..Len(Outcomes(loc.family)) :
        Positive(Prob(loc.family, Outcomes(loc.family)[k], loc.phi))

\* C3: where q_phi(z) > 0 for every z, the score-function form
\* E_q[(grad log q) * f + grad f] equals the chain-rule form
\* SUM_z [grad q * f + q * grad f], which is the gradient of E_q[f_phi(z)];
\* and q * grad log q = grad q for every z.  The three forms are functions of
\* the family, the cost and phi, which no draw changes: they are compared for
\* every run when it starts.
C3_ScoreFormIsChainRuleForm ==
    (cell = "score" /\ loc.n = 0 /\ AllPositive) =>
        /\ ScoreForm(loc.family, loc.cost, loc.phi) = ChainRuleForm(loc.family, loc.cost, loc.phi)
        /\ ChainRuleForm(loc.family, loc.cost, loc.phi)
              = GradientOfExpectation(loc.family, loc.cost, loc.phi)
        /\ \A k \in 1..Len(Outcomes(loc.family)) :
              LET z == Outcomes(loc.family)[k] IN
              RatMul(Prob(loc.family, z, loc.phi), GradLogQ(loc.family, z, loc.phi))
                 = PolyEvalRat(PolyDeriv(Density(loc.family, z)), loc.phi)

C3_Witness ==
    /\ cell = "score" /\ loc.family = "Binomial" /\ loc.phi = Rat(1, 4)
    /\ AllPositive /\ ~CostIndependentOfPhi
    /\ loc.n = 0
    /\ Positive(GradientOfExpectation(loc.family, loc.cost, loc.phi))

\* the number of leading draws equal to 0
FailuresBeforeFirstSuccess(draws) ==
    Cardinality({k \in 1..Len(draws) : \A j \in 1..k : draws[j] = 0})

\* C4: the value a top-level call of geometric(p) returns is the number of
\* draws equal to 0 before the first draw equal to 1.
C4_GeometricCountsFailures ==
    (cell = "geometric" /\ pc = "done") =>
        /\ \E k \in 1..Len(Draws) : Draws[k] = 1
        /\ ret = FailuresBeforeFirstSuccess(Draws)

C4_Witness ==
    /\ cell = "geometric" /\ pc = "done"
    /\ ret = 3 /\ Draws = <<0, 0, 0, 1>>

\* C5: in an execution of geometric(p) the k-th pyro.sample statement
\* (k = 0, 1, ...) is named x_k, no name is used twice, and the execution
\* has result + 1 named random variables.
C5_GeometricNamesUnique ==
    cell = "geometric" =>
        /\ \A k \in 1..Len(Sites) : Sites[k].name = <<"x_">> \o Digits(k - 1)
        /\ \A j, k \in 1..Len(Sites) : j # k => Sites[j].name # Sites[k].name
        /\ pc = "done" => Len(Sites) = ret + 1

\* two executions in a row with different numbers of named random variables
C5_Witness ==
    /\ cell = "geometric" /\ pc = "done"
    /\ Len(Sites) >= 11 /\ lastSites > 0 /\ lastSites # Len(Sites)
    /\ Sites[11].name = <<"x_", "1", "0">>

\* C6: an execution of the Pyro weather() issues two pyro.sample statements,
\* 'cloudy' and then 'temp', and returns the weather label and the temperature.
C6_WeatherTwoSites ==
    cell = "weather" =>
        /\ log = Sites
        /\ Len(Sites) <= 2
        /\ \A k \in 1..Len(Sites) :
              Sites[k].name = IF k = 1 THEN <<"cloudy">> ELSE <<"temp">>
        /\ pc = "done" =>
              /\ Len(Sites) = 2
              /\ Len(ret) = 2
              /\ ret[1] = (IF Sites[1].value = 1 THEN "cloudy" ELSE "sunny")
              /\ ret[2] = Sites[2].value

C6_Witness ==
    /\ cell = "weather" /\ pc = "done"
    /\ ret = <<"cloudy", 65>>
    /\ SiteNames = << <<"cloudy">>, <<"temp">> >>

C8_ObsInsideOwnContext ==
    cell = "model" =>
        /\ Len(ctx) <= 1
        /\ \A k \in 1..Len(log) :
              (IsSample(log[k]) /\ log[k].is_observed) =>
                  /\ k > 1
                  /\ log[k - 1].type = "enter" /\ log[k - 1].name = "data_loop"
                  /\ log[k].name = <<"obs_">> \o Digits(log[k - 1].counter)
                  /\ log[k].cond_indep_stack =
                        <<[name |-> "data_loop", counter |-> log[k - 1].counter]>>
                  /\ k < Len(log) =>
                        log[k + 1] = [type |-> "exit", name |-> "data_loop",
                                      counter |-> log[k - 1].counter]
        /\ \A k \in 1..Len(log) :
              log[k].type = "enter" =>
                  /\ k < Len(log) => IsSample(log[k + 1])
                  /\ ctx = <<>> => (k + 2 <= Len(log) /\ log[k + 2].type = "exit")
        /\ pc = "done" =>
              /\ ctx = <<>>
              /\ CountOf("enter") = Len(loc.data)
              /\ CountOf("exit") = Len(loc.data)
              /\ Len(Sites) = Len(loc.data) + 1

C8_Witness ==
    /\ cell = "model" /\ pc = "done"
    /\ Len(loc.data) = 3 /\ CountOf("exit") = 3
    /\ log[Len(log) - 1].name = <<"obs_", "2">>

\* C9: in the reified-list variant every data_loop context is entered and
\* exited before the first pyro.sample statement: no obs_i statement executes
\* inside a data_loop context.
C9_ReifiedObsOutsideContext ==
    cell = "reified" =>
        /\ \A k \in 1..Len(log) :
              IsSample(log[k]) =>
                  /\ log[k].cond_indep_stack = <<>>
                  /\ \A j \in (k + 1)..Len(log) : ~IsPlateEvent(log[j])
        /\ Sites # <<>> =>
              /\ ctx = <<>>
              /\ CountOf("enter") = Len(loc.data)
              /\ CountOf("exit") = Len(loc.data)

C9_Witness ==
    /\ cell = "reified" /\ pc = "done"
    /\ Len(loc.data) = 3 /\ Len(Sites) = 3 /\ CountOf("exit") = 3
    /\ loc.lst = <<0, 1, 2>>

\* C10: in model(data) with sequential plate latent_fairness is the first
\* statement of the trace, sampled outside of every data_loop context and
\* before the first one is entered; every obs_i statement comes after it and
\* is Bernoulli(f) for that one sampled value f.
C10_LatentOutsideDataLoop ==
    cell = "model" =>
        /\ pc # "latent_fairness" => log # <<>>
        /\ log # <<>> =>
              /\ IsSample(log[1])
              /\ log[1].name = <<"latent_fairness">>
              /\ log[1].cond_indep_stack = <<>>
              /\ ~log[1].is_observed
        /\ \A k \in 2..Len(log) :
              IsSample(log[k]) =>
                  /\ log[k].name # <<"latent_fairness">>
                  /\ log[k].is_observed
                  /\ log[k].fn = [family |-> "Bernoulli", params |-> <<log[1].value>>]

C10_Witness ==
    /\ cell = "model" /\ pc = "done"
    /\ Len(Sites) = 4 /\ log[1].value = Rat(3, 4)
    /\ \A k \in 2..4 : Sites[k].fn.params = <<Rat(3, 4)>>

\* C11: with subsample_size=5 over the 10-element data a run executes obs_i
\* for 5 different indices i of 0..9, each with obs=data[i], inside the
\* data_loop context of i, and each scaled by 10/5 = 2.
C11_FiveScaledObservations ==
    cell = "subsample" =>
        /\ \A k \in 1..Len(Sites) :
              /\ Sites[k].is_observed
              /\ Len(Sites[k].cond_indep_stack) = 1
              /\ LET i == Sites[k].cond_indep_stack[1].counter IN
                    /\ i \in 0..9
                    /\ Sites[k].name = <<"obs_">> \o Digits(i)
                    /\ Sites[k].value = (IF i < 6 THEN 1 ELSE 0)
              /\ Sites[k].scale = <<2, 1>>
        /\ \A j, k \in 1..Len(Sites) : j # k => Sites[j].name # Sites[k].name
        /\ Len(Sites) <= 5
        /\ pc = "done" => (Len(Sites) = 5 /\ ctx = <<>>)

C11_Witness ==
    /\ cell = "subsample" /\ pc = "done"
    /\ SiteNames = << <<"obs_", "9">>, <<"obs_", "0">>, <<"obs_", "4">>,
                      <<"obs_", "7">>, <<"obs_", "2">> >>
    /\ \A k \in 1..5 : Sites[k].scale = RatInt(2)

\* C12: the vectorized plate with size=10 and subsample_size=5 returns a
\* tensor ind of 5 indices, each a valid index into the size-10 data, the
\* observed value of the site obs is data.index_select(0, ind), element k
\* being data[ind[k]], and the statement is scaled by size/subsample_size.
C12_ObservesIndexSelected ==
    (cell = "vectorized" /\ pc # "with") =>
        /\ Len(loc.ind) = 5
        /\ \A k \in 1..5 : loc.ind[k] \in 0..9
        /\ \A k \in 1..Len(Sites) :
              /\ Sites[k].name = <<"obs">>
              /\ Sites[k].is_observed
              /\ Len(Sites[k].value) = 5
              /\ \A j \in 1..5 : Sites[k].value[j] = (IF loc.ind[j] < 6 THEN 1 ELSE 0)
              /\ Len(Sites[k].cond_indep_stack) = 1
              /\ Sites[k].cond_indep_stack[1].size = 10
              /\ Sites[k].scale = <<2, 1>>
        /\ (pc \in {"exit", "done"}) => Len(Sites) = 1

C12_Witness ==
    /\ cell = "vectorized" /\ pc = "done"
    /\ loc.ind = <<8, 0, 6, 3, 9>>
    /\ Len(Sites) = 1
    /\ Sites[1].value = <<0, 1, 0, 1, 0>>

\* the names of the local (z_i) sites of a trace, in the order sampled
LocalSitesOf(trace) ==
    LET keep(e) == e.type = "sample" /\ ~e.is_observed /\ e.name # <<"beta">>
        sel == SelectSeq(trace, keep)
    IN  [k \in 1..Len(sel) |-> sel[k].name]

\* the indices under which a trace observes
ObservedIndicesOf(trace) ==
    {trace[k].cond_indep_stack[1].counter :
        k \in {j \in 1..Len(trace) : trace[j].type = "sample" /\ trace[j].is_observed}}

SubsampleEventsOf(trace) ==
    Cardinality({k \in 1..Len(trace) : trace[k].type = "subsample"})

\* C13: in an SVI step the indices are subsampled once, in the guide; the
\* z_i sites the model samples are those the guide sampled, in the same
\* order, every obs_i of the model is named after an index i whose z_i the
\* guide sampled, and at the end the model has observed all 5 of them.
C13_ModelUsesGuideIndices ==
    (cell = "svi" /\ loc.role = "model") =>
        /\ SubsampleEventsOf(loc.guide_trace) = 1
        /\ SubsampleEventsOf(log) = 0
        /\ Len(LocalSitesOf(loc.guide_trace)) = 5
        /\ Len(LocalSitesOf(log)) <= 5
        /\ \A k \in 1..Len(LocalSitesOf(log)) :
              LocalSitesOf(log)[k] = LocalSitesOf(loc.guide_trace)[k]
        /\ \A k \in 1..Len(log) :
              (log[k].type = "sample" /\ log[k].is_observed) =>
                 /\ Len(log[k].cond_indep_stack) = 1
                 /\ log[k].name = <<"obs_">> \o Digits(log[k].cond_indep_stack[1].counter)
        /\ \A i \in ObservedIndicesOf(log) :
              \E k \in 1..5 : LocalSitesOf(loc.guide_trace)[k] = <<"z_">> \o Digits(i)
        /\ pc = "done" =>
              /\ LocalSitesOf(log) = LocalSitesOf(loc.guide_trace)
              /\ Cardinality(ObservedIndicesOf(log)) = 5

C13_Witness ==
    /\ cell = "svi" /\ pc = "done"
    /\ Len(loc.data) = 6
    /\ LocalSitesOf(loc.guide_trace) = << <<"z_", "5">>, <<"z_", "0">>, <<"z_", "3">>,
                                          <<"z_", "1">>, <<"z_", "4">> >>
    /\ ObservedIndicesOf(log) = {0, 1, 3, 4, 5}

\* the sum of the scaled mini-batch sums of all the given mini-batches
RECURSIVE TotalOver(_, _, _, _)
TotalOver(terms, batches, N, M) ==
    IF batches = {} THEN RatInt(0)
    ELSE LET I == CHOOSE J \in batches : TRUE
         IN  RatAdd(MinibatchSum(terms, I, N, M), TotalOver(terms, batches \ {I}, N, M))

\* C14: for every N, every M with 1 <= M < N and every assignment of the
\* terms, the scaled mini-batch sum averaged over all index subsets of size M
\* is the full sum exactly; the sum a drawn mini-batch gives is one of the
\* averaged values.
C14_MinibatchSumUnbiased ==
    cell = "minibatch" =>
        /\ 1 <= loc.M /\ loc.M < loc.N
        /\ RatDiv(TotalOver(loc.terms, Minibatches(loc.N, loc.M), loc.N, loc.M),
                  RatInt(Cardinality(Minibatches(loc.N, loc.M))))
              = RatInt(FullSum(loc.terms))
        /\ pc = "done" =>
              /\ loc.I \in Minibatches(loc.N, loc.M)
              /\ RatMul(loc.estimate, RatInt(loc.M))
                    = RatInt(loc.N * SumOver(loc.terms, loc.I))

\* a drawn mini-batch whose scaled sum is the full sum, next to one whose
\* scaled sum is not
C14_Witness ==
    /\ cell = "minibatch" /\ pc = "done"
    /\ loc.N = 4 /\ loc.M = 3
    /\ loc.terms = <<1, 0 - 2, 0 - 1, 0 - 2>>
    /\ loc.I = {1, 2, 4}
    /\ loc.estimate = <<0 - 4, 1>>
    /\ FullSum(loc.terms) = 0 - 4
    /\ MinibatchSum(loc.terms, {2, 3, 4}, 4, 3) = <<0 - 20, 3>>

====
